---- MODULE Spec2Model ----
(***************************************************************************)
(* Normal-mode command interpreter of the Vi edit mode                     *)
(* (src/src/edit_mode/vi/command.rs): the keystroke parser parse_command,  *)
(* the standalone dispatch Command::to_reedline and the motion-combined    *)
(* dispatch Command::to_reedline_with_motion, acting on the session state  *)
(* Vi { previous, last_char_search }.                                      *)
(***************************************************************************)
EXTENDS Integers, Sequences, FiniteSets, TLC

VARIABLES previous, last_char_search, ret, last_search_motion,
          pending, parsed,
          content, mode, clip_ret, last_write,
          history, completion,
          cb, local_copy, sc_mode, sc_ret, last_set

\* the pending keystroke buffer of the key-handling loop and the result of
\* its last parse
keyVars == <<pending, parsed>>

\* the fields of a LocalClipboard, the result of the last call on it and
\* a log of the last call that wrote it
clipVars == <<content, mode, clip_ret, last_write>>

\* the command lines saved in the History and the result of the last call of
\* HistoryCompleter::complete
histVars == <<history, completion>>

\* the text held by the system clipboard that the handle cb reaches, the
\* other fields of a SystemClipboard, the result of the last call on it and
\* a log of the last SystemClipboard::set
sysVars == <<cb, local_copy, sc_mode, sc_ret, last_set>>

vars == <<previous, last_char_search, ret, last_search_motion, keyVars, clipVars, histVars, sysVars>>

(* ---------------------------------------------------------------------- *)
(* Bounds                                                                  *)
(* ---------------------------------------------------------------------- *)

\* longest pending keystroke input handed to the parser
MaxInput == 2

\* most keystrokes the key-handling loop lets pend
MaxPending == 3

\* longest content written to the clipboard
MaxContent == 3

\* most items saved in the History
MaxHistory == 4

\* longest text written to the system clipboard
MaxSystemText == 2

(* ---------------------------------------------------------------------- *)
(* Values                                                                  *)
(* ---------------------------------------------------------------------- *)

\* Option<T>
None == [tag |-> "None"]

Some(x) == [tag |-> "Some", v |-> x]

\* target characters carried by motions and by ReplaceChar
Chars == {"x", "d"}

\* keystrokes the parser can see: every command token, 'r', and two
\* characters that identify no command
CommandTokens == {"d", "p", "P", "i", "a", "u", "c", "x", "s", "?", "C", "D", "I", "A", "S", "~", "."}

Keys == CommandTokens \cup {"r", "w", "3"}

\* enum Command
UnitCommands == {"Incomplete", "Delete", "DeleteChar", "SubstituteCharWithInsert", "PasteAfter", "PasteBefore", "EnterViAppend", "EnterViInsert", "Undo", "ChangeToLineEnd", "DeleteToEnd", "AppendToEnd", "PrependToStart", "RewriteCurrentLine", "Change", "HistorySearch", "Switchcase", "RepeatLastAction"}

Cmd(t) == [tag |-> t]

ReplaceChar(c) == [tag |-> "ReplaceChar", c |-> c]

Command == {Cmd(t) : t \in UnitCommands} \cup {ReplaceChar(c) : c \in Chars}

\* enum Motion (super::motion::Motion, as matched by to_reedline_with_motion)
UnitMotions == {"End", "Line", "NextWord", "NextBigWord", "NextWordEnd", "NextBigWordEnd", "PreviousWord", "PreviousBigWord", "Start", "Left", "Right", "Up", "Down", "ReplayCharSearch", "ReverseCharSearch"}

CharMotions == {"RightUntil", "RightBefore", "LeftUntil", "LeftBefore"}

Mot(t) == [tag |-> t]

MotC(t, c) == [tag |-> t, c |-> c]

Motion == {Mot(t) : t \in UnitMotions} \cup {MotC(t, c) : t \in CharMotions, c \in Chars}

\* enum ViCharSearch (super::motion::ViCharSearch, as constructed by the dispatch)
CharSearchKinds == {"ToRight", "TillRight", "ToLeft", "TillLeft"}

CharSearch(k, c) == [kind |-> k, c |-> c]

ViCharSearch == {CharSearch(k, c) : k \in CharSearchKinds, c \in Chars}

\* EditCommand values built by the dispatch
EC(n) == [ec |-> n]

ECc(n, c) == [ec |-> n, c |-> c]

ECsel(n, s) == [ec |-> n, select |-> s]

\* ReedlineEvent values
Repaint == [ev |-> "Repaint"]

SearchHistory == [ev |-> "SearchHistory"]

\* events the edit loop can have stored in Vi::previous
Events == {Repaint, [ev |-> "Edit", edits |-> <<EC("CutCurrentLine")>>]}

\* enum ReedlineOption
Edit(e) == [opt |-> "Edit", edit |-> e]

Event(e) == [opt |-> "Event", event |-> e]

Incomplete == [opt |-> "Incomplete"]

\* struct Vi, the two fields the dispatch uses
ViState == [previous |-> previous, last_char_search |-> last_char_search]

(* ---------------------------------------------------------------------- *)
(* ViCharSearch::reverse and ViCharSearch::to_cut (motion.rs)              *)
(* ---------------------------------------------------------------------- *)

\* mirrors the direction, keeps the until/before kind and the target char
reverse(cs) ==
    CASE cs.kind = "ToRight" -> CharSearch("ToLeft", cs.c)
      [] cs.kind = "ToLeft" -> CharSearch("ToRight", cs.c)
      [] cs.kind = "TillRight" -> CharSearch("TillLeft", cs.c)
      [] cs.kind = "TillLeft" -> CharSearch("TillRight", cs.c)

\* the buffer-cut primitive matching a remembered character search
to_cut(cs) ==
    CASE cs.kind = "ToRight" -> ECc("CutRightUntil", cs.c)
      [] cs.kind = "TillRight" -> ECc("CutRightBefore", cs.c)
      [] cs.kind = "ToLeft" -> ECc("CutLeftUntil", cs.c)
      [] cs.kind = "TillLeft" -> ECc("CutLeftBefore", cs.c)

(* ---------------------------------------------------------------------- *)
(* parse_command                                                           *)
(* ---------------------------------------------------------------------- *)

\* the command a single-character token stands for
TokenCommand(k) ==
    CASE k = "d" -> Cmd("Delete")
      [] k = "p" -> Cmd("PasteAfter")
      [] k = "P" -> Cmd("PasteBefore")
      [] k = "i" -> Cmd("EnterViInsert")
      [] k = "a" -> Cmd("EnterViAppend")
      [] k = "u" -> Cmd("Undo")
      [] k = "c" -> Cmd("Change")
      [] k = "x" -> Cmd("DeleteChar")
      [] k = "s" -> Cmd("SubstituteCharWithInsert")
      [] k = "?" -> Cmd("HistorySearch")
      [] k = "C" -> Cmd("ChangeToLineEnd")
      [] k = "D" -> Cmd("DeleteToEnd")
      [] k = "I" -> Cmd("PrependToStart")
      [] k = "A" -> Cmd("AppendToEnd")
      [] k = "S" -> Cmd("RewriteCurrentLine")
      [] k = "~" -> Cmd("Switchcase")
      [] k = "." -> Cmd("RepeatLastAction")

\* input is the unconsumed tail of the keystroke buffer; the result holds the
\* returned Option<Command> and the tail the iterator is left at
\* parse_command taking the leading character with next() before matching it
ParseCommandEatsUnknown(input) ==
    IF input = <<>> THEN [out |-> None, rest |-> input]
    ELSE IF Head(input) = "r" THEN
        IF Tail(input) = <<>>
        THEN [out |-> Some(Cmd("Incomplete")), rest |-> Tail(input)]
        ELSE [out |-> Some(ReplaceChar(Head(Tail(input)))), rest |-> Tail(Tail(input))]
    ELSE IF Head(input) \in CommandTokens
        THEN [out |-> Some(TokenCommand(Head(input))), rest |-> Tail(input)]
    ELSE [out |-> None, rest |-> Tail(input)]

\* parse_command peeking at the operand of 'r' without consuming it
ParseCommandPeekOperand(input) ==
    IF input = <<>> THEN [out |-> None, rest |-> input]
    ELSE IF Head(input) = "r" THEN
        IF Tail(input) = <<>>
        THEN [out |-> Some(Cmd("Incomplete")), rest |-> Tail(input)]
        ELSE [out |-> Some(ReplaceChar(Head(Tail(input)))), rest |-> Tail(input)]
    ELSE IF Head(input) \in CommandTokens
        THEN [out |-> Some(TokenCommand(Head(input))), rest |-> Tail(input)]
    ELSE [out |-> None, rest |-> input]

\* parse_command answering a lone 'r' with no match
ParseCommandNoIncomplete(input) ==
    IF input = <<>> THEN [out |-> None, rest |-> input]
    ELSE IF Head(input) = "r" THEN
        IF Tail(input) = <<>>
        THEN [out |-> None, rest |-> Tail(input)]
        ELSE [out |-> Some(ReplaceChar(Head(Tail(input)))), rest |-> Tail(Tail(input))]
    ELSE IF Head(input) \in CommandTokens
        THEN [out |-> Some(TokenCommand(Head(input))), rest |-> Tail(input)]
    ELSE [out |-> None, rest |-> input]

parse_command(input) ==
    IF input = <<>> THEN [out |-> None, rest |-> input]
    ELSE IF Head(input) = "r" THEN
        IF Tail(input) = <<>>
        THEN [out |-> Some(Cmd("Incomplete")), rest |-> Tail(input)]
        ELSE [out |-> Some(ReplaceChar(Head(Tail(input)))), rest |-> Tail(Tail(input))]
    ELSE IF Head(input) \in CommandTokens
        THEN [out |-> Some(TokenCommand(Head(input))), rest |-> Tail(input)]
    ELSE [out |-> None, rest |-> input]

(* ---------------------------------------------------------------------- *)
(* impl Command                                                            *)
(* ---------------------------------------------------------------------- *)

\* whole_line_char with the upper-case letter for Change
WholeLineCharUpper(self) ==
    CASE self.tag = "Delete" -> Some("d")
      [] self.tag = "Change" -> Some("C")
      [] OTHER -> None

whole_line_char(self) ==
    CASE self.tag = "Delete" -> Some("d")
      [] self.tag = "Change" -> Some("c")
      [] OTHER -> None

\* requires_motion matching Delete alone
RequiresMotionDeleteOnly(self) == self.tag = "Delete"

requires_motion(self) == self.tag \in {"Delete", "Change"}

\* Results of the two dispatch methods: the returned value and the Vi the
\* &mut reference is left pointing at.
Returned(out, vi) == [out |-> out, vi |-> vi]

\* RepeatArm with previous.take() in place of the borrow
RepeatArmTake(vi_state) ==
    IF vi_state.previous.tag = "Some"
    THEN Returned(<<Event(vi_state.previous.v)>>, [vi_state EXCEPT !.previous = None])
    ELSE Returned(<<>>, vi_state)

\* RepeatArm with the absent case answered like the commands awaiting a motion
RepeatArmIncomplete(vi_state) ==
    IF vi_state.previous.tag = "Some"
    THEN Returned(<<Event(vi_state.previous.v)>>, vi_state)
    ELSE Returned(<<Incomplete>>, vi_state)

\* the Command::RepeatLastAction arm
RepeatArm(vi_state) ==
    IF vi_state.previous.tag = "Some"
    THEN Returned(<<Event(vi_state.previous.v)>>, vi_state)
    ELSE Returned(<<>>, vi_state)

\* to_reedline whose DeleteToEnd arm repeats the primitive of the arm above it
ToReedlineCopiedArm(self, vi_state) ==
    CASE self.tag = "EnterViInsert" -> Returned(<<Event(Repaint)>>, vi_state)
      [] self.tag = "EnterViAppend" -> Returned(<<Edit(ECsel("MoveRight", FALSE))>>, vi_state)
      [] self.tag = "PasteAfter" -> Returned(<<Edit(EC("PasteCutBufferAfter"))>>, vi_state)
      [] self.tag = "PasteBefore" -> Returned(<<Edit(EC("PasteCutBufferBefore"))>>, vi_state)
      [] self.tag = "Undo" -> Returned(<<Edit(EC("Undo"))>>, vi_state)
      [] self.tag = "ChangeToLineEnd" -> Returned(<<Edit(EC("ClearToLineEnd"))>>, vi_state)
      [] self.tag = "DeleteToEnd" -> Returned(<<Edit(EC("ClearToLineEnd"))>>, vi_state)
      [] self.tag = "AppendToEnd" -> Returned(<<Edit(ECsel("MoveToLineEnd", FALSE))>>, vi_state)
      [] self.tag = "PrependToStart" -> Returned(<<Edit(ECsel("MoveToLineStart", FALSE))>>, vi_state)
      [] self.tag = "RewriteCurrentLine" -> Returned(<<Edit(EC("CutCurrentLine"))>>, vi_state)
      [] self.tag = "DeleteChar" -> Returned(<<Edit(EC("CutChar"))>>, vi_state)
      [] self.tag = "ReplaceChar" -> Returned(<<Edit(ECc("ReplaceChar", self.c))>>, vi_state)
      [] self.tag = "SubstituteCharWithInsert" -> Returned(<<Edit(EC("CutChar"))>>, vi_state)
      [] self.tag = "HistorySearch" -> Returned(<<Event(SearchHistory)>>, vi_state)
      [] self.tag = "Switchcase" -> Returned(<<Edit(EC("SwitchcaseChar"))>>, vi_state)
      [] self.tag \in {"Delete", "Change", "Incomplete"} -> Returned(<<Incomplete>>, vi_state)
      [] self.tag = "RepeatLastAction" -> RepeatArm(vi_state)

to_reedline(self, vi_state) ==
    CASE self.tag = "EnterViInsert" -> Returned(<<Event(Repaint)>>, vi_state)
      [] self.tag = "EnterViAppend" -> Returned(<<Edit(ECsel("MoveRight", FALSE))>>, vi_state)
      [] self.tag = "PasteAfter" -> Returned(<<Edit(EC("PasteCutBufferAfter"))>>, vi_state)
      [] self.tag = "PasteBefore" -> Returned(<<Edit(EC("PasteCutBufferBefore"))>>, vi_state)
      [] self.tag = "Undo" -> Returned(<<Edit(EC("Undo"))>>, vi_state)
      [] self.tag = "ChangeToLineEnd" -> Returned(<<Edit(EC("ClearToLineEnd"))>>, vi_state)
      [] self.tag = "DeleteToEnd" -> Returned(<<Edit(EC("CutToLineEnd"))>>, vi_state)
      [] self.tag = "AppendToEnd" -> Returned(<<Edit(ECsel("MoveToLineEnd", FALSE))>>, vi_state)
      [] self.tag = "PrependToStart" -> Returned(<<Edit(ECsel("MoveToLineStart", FALSE))>>, vi_state)
      [] self.tag = "RewriteCurrentLine" -> Returned(<<Edit(EC("CutCurrentLine"))>>, vi_state)
      [] self.tag = "DeleteChar" -> Returned(<<Edit(EC("CutChar"))>>, vi_state)
      [] self.tag = "ReplaceChar" -> Returned(<<Edit(ECc("ReplaceChar", self.c))>>, vi_state)
      [] self.tag = "SubstituteCharWithInsert" -> Returned(<<Edit(EC("CutChar"))>>, vi_state)
      [] self.tag = "HistorySearch" -> Returned(<<Event(SearchHistory)>>, vi_state)
      [] self.tag = "Switchcase" -> Returned(<<Edit(EC("SwitchcaseChar"))>>, vi_state)
      [] self.tag \in {"Delete", "Change", "Incomplete"} -> Returned(<<Incomplete>>, vi_state)
      [] self.tag = "RepeatLastAction" -> RepeatArm(vi_state)

\* vi_state with last_char_search overwritten
SetSearch(vi_state, cs) == [vi_state EXCEPT !.last_char_search = Some(cs)]

ReplayCut(char_search) == <<Edit(to_cut(char_search))>>

\* ReverseCut without the call of reverse()
ReverseCutUnmirrored(char_search) == <<Edit(to_cut(char_search))>>

ReverseCut(char_search) == <<Edit(to_cut(reverse(char_search)))>>

\* vi_state.last_char_search.as_ref().map(ReplayCut)
MapReplay(vi_state) ==
    IF vi_state.last_char_search.tag = "Some"
    THEN Some(ReplayCut(vi_state.last_char_search.v))
    ELSE None

\* vi_state.last_char_search.as_ref().map(ReverseCut)
MapReverse(vi_state) ==
    IF vi_state.last_char_search.tag = "Some"
    THEN Some(ReverseCut(vi_state.last_char_search.v))
    ELSE None

\* the Self::Delete arm
DeleteArm(motion, vi_state) ==
    CASE motion.tag = "End" -> Returned(Some(<<Edit(EC("CutToLineEnd"))>>), vi_state)
      [] motion.tag = "Line" -> Returned(Some(<<Edit(EC("CutCurrentLine"))>>), vi_state)
      [] motion.tag = "NextWord" -> Returned(Some(<<Edit(EC("CutWordRightToNext"))>>), vi_state)
      [] motion.tag = "NextBigWord" -> Returned(Some(<<Edit(EC("CutBigWordRightToNext"))>>), vi_state)
      [] motion.tag = "NextWordEnd" -> Returned(Some(<<Edit(EC("CutWordRight"))>>), vi_state)
      [] motion.tag = "NextBigWordEnd" -> Returned(Some(<<Edit(EC("CutBigWordRight"))>>), vi_state)
      [] motion.tag = "PreviousWord" -> Returned(Some(<<Edit(EC("CutWordLeft"))>>), vi_state)
      [] motion.tag = "PreviousBigWord" -> Returned(Some(<<Edit(EC("CutBigWordLeft"))>>), vi_state)
      [] motion.tag = "RightUntil" ->
            Returned(Some(<<Edit(ECc("CutRightUntil", motion.c))>>),
                     SetSearch(vi_state, CharSearch("ToRight", motion.c)))
      [] motion.tag = "RightBefore" ->
            Returned(Some(<<Edit(ECc("CutRightBefore", motion.c))>>),
                     SetSearch(vi_state, CharSearch("TillRight", motion.c)))
      [] motion.tag = "LeftUntil" ->
            Returned(Some(<<Edit(ECc("CutLeftUntil", motion.c))>>),
                     SetSearch(vi_state, CharSearch("ToLeft", motion.c)))
      [] motion.tag = "LeftBefore" ->
            Returned(Some(<<Edit(ECc("CutLeftBefore", motion.c))>>),
                     SetSearch(vi_state, CharSearch("TillLeft", motion.c)))
      [] motion.tag = "Start" -> Returned(Some(<<Edit(EC("CutFromLineStart"))>>), vi_state)
      [] motion.tag = "Left" -> Returned(Some(<<Edit(EC("Backspace"))>>), vi_state)
      [] motion.tag = "Right" -> Returned(Some(<<Edit(EC("Delete"))>>), vi_state)
      [] motion.tag = "Up" -> Returned(None, vi_state)
      [] motion.tag = "Down" -> Returned(None, vi_state)
      [] motion.tag = "ReplayCharSearch" -> Returned(MapReplay(vi_state), vi_state)
      [] motion.tag = "ReverseCharSearch" -> Returned(MapReverse(vi_state), vi_state)

\* the `let op = match motion` of the Self::Change arm
ChangeOp(motion, vi_state) ==
    CASE motion.tag = "End" -> Returned(Some(<<Edit(EC("ClearToLineEnd"))>>), vi_state)
      [] motion.tag = "Line" ->
            Returned(Some(<<Edit(ECsel("MoveToStart", FALSE)), Edit(EC("ClearToLineEnd"))>>), vi_state)
      [] motion.tag = "NextWord" -> Returned(Some(<<Edit(EC("CutWordRight"))>>), vi_state)
      [] motion.tag = "NextBigWord" -> Returned(Some(<<Edit(EC("CutBigWordRight"))>>), vi_state)
      [] motion.tag = "NextWordEnd" -> Returned(Some(<<Edit(EC("CutWordRight"))>>), vi_state)
      [] motion.tag = "NextBigWordEnd" -> Returned(Some(<<Edit(EC("CutBigWordRight"))>>), vi_state)
      [] motion.tag = "PreviousWord" -> Returned(Some(<<Edit(EC("CutWordLeft"))>>), vi_state)
      [] motion.tag = "PreviousBigWord" -> Returned(Some(<<Edit(EC("CutBigWordLeft"))>>), vi_state)
      [] motion.tag = "RightUntil" ->
            Returned(Some(<<Edit(ECc("CutRightUntil", motion.c))>>),
                     SetSearch(vi_state, CharSearch("ToRight", motion.c)))
      [] motion.tag = "RightBefore" ->
            Returned(Some(<<Edit(ECc("CutRightBefore", motion.c))>>),
                     SetSearch(vi_state, CharSearch("TillRight", motion.c)))
      [] motion.tag = "LeftUntil" ->
            Returned(Some(<<Edit(ECc("CutLeftUntil", motion.c))>>),
                     SetSearch(vi_state, CharSearch("ToLeft", motion.c)))
      [] motion.tag = "LeftBefore" ->
            Returned(Some(<<Edit(ECc("CutLeftBefore", motion.c))>>),
                     SetSearch(vi_state, CharSearch("TillLeft", motion.c)))
      [] motion.tag = "Start" -> Returned(Some(<<Edit(EC("CutFromLineStart"))>>), vi_state)
      [] motion.tag = "Left" -> Returned(Some(<<Edit(EC("Backspace"))>>), vi_state)
      [] motion.tag = "Right" -> Returned(Some(<<Edit(EC("Delete"))>>), vi_state)
      [] motion.tag = "Up" -> Returned(None, vi_state)
      [] motion.tag = "Down" -> Returned(None, vi_state)
      [] motion.tag = "ReplayCharSearch" -> Returned(MapReplay(vi_state), vi_state)
      [] motion.tag = "ReverseCharSearch" -> Returned(MapReverse(vi_state), vi_state)

\* PushRepaint pushing onto a defaulted (empty) list when op is None
PushRepaintOrDefault(op) ==
    IF op.tag = "Some" THEN Some(Append(op.v, Event(Repaint))) ELSE Some(<<Event(Repaint)>>)

\* PushRepaint inserting the repaint at the front
PushRepaintFirst(op) ==
    IF op.tag = "Some" THEN Some(<<Event(Repaint)>> \o op.v) ELSE None

\* op.map(|mut vec| { vec.push(Repaint); vec })
PushRepaint(op) ==
    IF op.tag = "Some" THEN Some(Append(op.v, Event(Repaint))) ELSE None

\* the Self::Change arm
ChangeArm(motion, vi_state) ==
    LET r == ChangeOp(motion, vi_state) IN Returned(PushRepaint(r.out), r.vi)

\* to_reedline_with_motion whose Change arm records RightBefore as ToRight
WithMotionMiscopiedSearch(self, motion, vi_state) ==
    CASE self.tag = "Delete" -> DeleteArm(motion, vi_state)
      [] self.tag = "Change" ->
            IF motion.tag = "RightBefore"
            THEN Returned(ChangeArm(motion, vi_state).out,
                          SetSearch(vi_state, CharSearch("ToRight", motion.c)))
            ELSE ChangeArm(motion, vi_state)
      [] OTHER -> Returned(None, vi_state)

\* to_reedline_with_motion whose ReplayCharSearch takes the remembered
\* search out of the session instead of borrowing it
WithMotionTakeSearch(self, motion, vi_state) ==
    LET r == CASE self.tag = "Delete" -> DeleteArm(motion, vi_state)
               [] self.tag = "Change" -> ChangeArm(motion, vi_state)
               [] OTHER -> Returned(None, vi_state)
    IN  IF self.tag \in {"Delete", "Change"} /\ motion.tag = "ReplayCharSearch"
        THEN Returned(r.out, [vi_state EXCEPT !.last_char_search = None])
        ELSE r

\* to_reedline_with_motion whose ReverseCharSearch stores the mirrored search
WithMotionStoreReversed(self, motion, vi_state) ==
    LET r == CASE self.tag = "Delete" -> DeleteArm(motion, vi_state)
               [] self.tag = "Change" -> ChangeArm(motion, vi_state)
               [] OTHER -> Returned(None, vi_state)
    IN  IF /\ self.tag \in {"Delete", "Change"}
           /\ motion.tag = "ReverseCharSearch"
           /\ vi_state.last_char_search.tag = "Some"
        THEN Returned(r.out, SetSearch(vi_state, reverse(vi_state.last_char_search.v)))
        ELSE r

\* to_reedline_with_motion that treats Up and Down of Delete like Line
WithMotionVerticalAsLine(self, motion, vi_state) ==
    CASE self.tag = "Delete" ->
            IF motion.tag \in {"Up", "Down"}
            THEN DeleteArm(Mot("Line"), vi_state)
            ELSE DeleteArm(motion, vi_state)
      [] self.tag = "Change" -> ChangeArm(motion, vi_state)
      [] OTHER -> Returned(None, vi_state)

\* to_reedline_with_motion whose Delete arm also matches DeleteChar
WithMotionDeleteCharToo(self, motion, vi_state) ==
    CASE self.tag \in {"Delete", "DeleteChar"} -> DeleteArm(motion, vi_state)
      [] self.tag = "Change" -> ChangeArm(motion, vi_state)
      [] OTHER -> Returned(None, vi_state)

\* to_reedline_with_motion whose Change arm cuts to the next word for
\* NextWord, as the Delete arm does
WithMotionChangeToNextWord(self, motion, vi_state) ==
    CASE self.tag = "Delete" -> DeleteArm(motion, vi_state)
      [] self.tag = "Change" ->
            IF motion.tag = "NextWord"
            THEN Returned(PushRepaint(DeleteArm(motion, vi_state).out), vi_state)
            ELSE ChangeArm(motion, vi_state)
      [] OTHER -> Returned(None, vi_state)

to_reedline_with_motion(self, motion, vi_state) ==
    CASE self.tag = "Delete" -> DeleteArm(motion, vi_state)
      [] self.tag = "Change" -> ChangeArm(motion, vi_state)
      [] OTHER -> Returned(None, vi_state)

(* ---------------------------------------------------------------------- *)
(* The editing session                                                     *)
(* ---------------------------------------------------------------------- *)

\* keystrokes of the pending buffers the session hands to the parser
SessionKeys == {"d", "c", ".", "r", "w"}

Inputs == UNION {[1..n -> SessionKeys] : n \in 0..MaxInput}

Init ==
    /\ previous = None
    /\ last_char_search = None
    /\ ret = [op |-> "new"]
    /\ last_search_motion = None
    /\ pending = <<>>
    /\ parsed = None
    /\ content = <<>>
    /\ mode = "Normal"
    /\ clip_ret = [op |-> "new"]
    /\ last_write = [op |-> "new"]
    /\ history = <<>>
    /\ completion = None
    /\ cb = << >>
    /\ local_copy = << >>
    /\ sc_mode = "Normal"
    /\ sc_ret = [op |-> "new"]
    /\ last_set = [op |-> "new"]

\* a call of parse_command on a pending keystroke buffer
ParseCommand ==
    \E input \in Inputs :
        LET r == parse_command(input) IN
        /\ ret' = [op |-> "parse_command", input |-> input, out |-> r.out, rest |-> r.rest]
        /\ UNCHANGED <<previous, last_char_search, last_search_motion>>
        /\ UNCHANGED <<keyVars, clipVars, histVars, sysVars>>

\* a call of Command::to_reedline (standalone dispatch)
ToReedline ==
    \E self \in Command :
        LET r == to_reedline(self, ViState) IN
        /\ previous' = r.vi.previous
        /\ last_char_search' = r.vi.last_char_search
        /\ ret' = [op |-> "to_reedline", self |-> self, out |-> r.out]
        /\ UNCHANGED last_search_motion
        /\ UNCHANGED <<keyVars, clipVars, histVars, sysVars>>

\* a call of Command::to_reedline_with_motion (motion-combined dispatch);
\* last_search_motion logs the call when it pairs Delete or Change with a
\* character-search motion
ToReedlineWithMotion ==
    \E self \in Command, motion \in Motion :
        LET r == to_reedline_with_motion(self, motion, ViState) IN
        /\ previous' = r.vi.previous
        /\ last_char_search' = r.vi.last_char_search
        /\ ret' = [op |-> "to_reedline_with_motion", self |-> self, motion |-> motion, out |-> r.out]
        /\ last_search_motion' =
               IF self.tag \in {"Delete", "Change"} /\ motion.tag \in CharMotions
               THEN Some([self |-> self, motion |-> motion])
               ELSE last_search_motion
        /\ UNCHANGED <<keyVars, clipVars, histVars, sysVars>>

\* the edit loop stores the event of the last completed action in Vi::previous
SetPrevious ==
    \E e \in Events :
        /\ previous' = Some(e)
        /\ ret' = [op |-> "set_previous", event |-> e]
        /\ UNCHANGED <<last_char_search, last_search_motion>>
        /\ UNCHANGED <<keyVars, clipVars, histVars, sysVars>>

Next ==
    \/ ParseCommand
    \/ ToReedline
    \/ ToReedlineWithMotion
    \/ SetPrevious

Spec == Init /\ [][Next]_vars

(* ---------------------------------------------------------------------- *)
(* The key-handling loop around parse_command                              *)
(* ---------------------------------------------------------------------- *)

sessionVars == <<previous, last_char_search, ret, last_search_motion>>

\* a keystroke arrives: it is appended to the pending buffer and the whole
\* buffer is parsed again from its start
KeyPress ==
    \E k \in Keys :
        /\ Len(pending) < MaxPending
        /\ pending' = Append(pending, k)
        /\ parsed' = Some(parse_command(pending'))
        /\ UNCHANGED <<sessionVars, clipVars, histVars, sysVars>>

\* the loop empties the buffer once the parse returned a complete command
\* or no match; on Incomplete it waits for the next keystroke
ClearPending ==
    /\ parsed.tag = "Some"
    /\ parsed.v.out # Some(Cmd("Incomplete"))
    /\ pending' = <<>>
    /\ parsed' = None
    /\ UNCHANGED <<sessionVars, clipVars, histVars, sysVars>>

NextKeys ==
    \/ KeyPress
    \/ ClearPending

SpecKeys == Init /\ [][NextKeys]_vars

(* ---------------------------------------------------------------------- *)
(* Clipboard and LocalClipboard (core_editor/clip_buffer.rs)               *)
(* ---------------------------------------------------------------------- *)

\* enum ClipboardMode
ClipboardMode == {"Normal", "Lines"}

\* the strings written to the clipboard, as sequences of characters
ClipChars == {"t", "e", "s"}

Contents == UNION {[1..n -> ClipChars] : n \in 0..MaxContent}

\* struct LocalClipboard
Clip == [content |-> content, mode |-> mode]

\* LocalClipboard::set without the assignment of the mode
LocalSetKeepsMode(self, new_content, new_mode) ==
    [self EXCEPT !.content = new_content]

\* LocalClipboard::set: the clipboard self is left as
LocalClipboard_set(self, new_content, new_mode) ==
    [self EXCEPT !.content = new_content, !.mode = new_mode]

\* LocalClipboard::get: the returned pair and the clipboard self is left as
LocalClipboard_get(self) == [out |-> <<self.content, self.mode>>, self |-> self]

\* Clipboard::clear, the provided method
Clipboard_clear(self) == LocalClipboard_set(self, <<>>, "Normal")

\* Clipboard::len, the provided method
Clipboard_len(self) ==
    LET got == LocalClipboard_get(self) IN [out |-> Len(got.out[1]), self |-> got.self]

ClipSet ==
    \E c \in Contents, m \in ClipboardMode :
        LET after == LocalClipboard_set(Clip, c, m) IN
        /\ content' = after.content
        /\ mode' = after.mode
        /\ clip_ret' = [op |-> "set", content |-> c, mode |-> m]
        /\ last_write' = [op |-> "set", content |-> c, mode |-> m]
        /\ UNCHANGED <<sessionVars, keyVars, histVars, sysVars>>

ClipClear ==
    LET after == Clipboard_clear(Clip) IN
    /\ content' = after.content
    /\ mode' = after.mode
    /\ clip_ret' = [op |-> "clear"]
    /\ last_write' = [op |-> "clear"]
    /\ UNCHANGED <<sessionVars, keyVars, histVars, sysVars>>

ClipGet ==
    LET got == LocalClipboard_get(Clip) IN
    /\ content' = got.self.content
    /\ mode' = got.self.mode
    /\ clip_ret' = [op |-> "get", out |-> got.out]
    /\ UNCHANGED <<last_write, sessionVars, keyVars, histVars, sysVars>>

ClipLen ==
    LET got == Clipboard_len(Clip) IN
    /\ content' = got.self.content
    /\ mode' = got.self.mode
    /\ clip_ret' = [op |-> "len", out |-> got.out]
    /\ UNCHANGED <<last_write, sessionVars, keyVars, histVars, sysVars>>

NextClip ==
    \/ ClipSet
    \/ ClipClear
    \/ ClipGet
    \/ ClipLen

SpecClip == Init /\ [][NextClip]_vars

(* ---------------------------------------------------------------------- *)
(* HistoryCompleter (completion/history.rs)                                *)
(* ---------------------------------------------------------------------- *)

\* command lines of the saved items and the input lines completed, as
\* sequences of characters; no line holds the SELECTION_CHAR '!'
CommandLines == {<<"a">>, <<"b">>, <<"a", "b">>}

Lines == {<< >>, <<"a">>, <<"b">>}

\* str::contains
Contains(s, t) == \E i \in 0..(Len(s) - Len(t)) : SubSeq(s, i + 1, i + Len(t)) = t

\* parse_selection_char(line, SELECTION_CHAR).remainder of a line that holds
\* no selection marker: the whole line
Remainder(line) == line

\* History::save of the file-backed History: the item is stored after the
\* items saved before it, unless it repeats the item saved last
save(entries, command_line) ==
    IF entries # << >> /\ entries[Len(entries)] = command_line
    THEN entries
    ELSE Append(entries, command_line)

\* History::search of SearchQuery::all_that_contain_rev(text): all the
\* saved items whose command line contains text, the last saved first
RECURSIVE all_that_contain_rev(_, _)
all_that_contain_rev(entries, text) ==
    IF entries = << >> THEN << >>
    ELSE LET last == entries[Len(entries)]
             older == all_that_contain_rev(SubSeq(entries, 1, Len(entries) - 1), text)
         IN  IF Contains(last, text) THEN <<last>> \o older ELSE older

\* HistoryCompleter::create_suggestion
create_suggestion(line, pos, value) ==
    [value |-> value,
     description |-> None,
     style |-> None,
     extra |-> None,
     span |-> [start |-> pos - Len(line), end |-> pos],
     append_whitespace |-> FALSE]

\* HistoryCompleter::complete
complete(entries, line, pos) ==
    LET values == all_that_contain_rev(entries, Remainder(line)) IN
    [i \in 1..Len(values) |-> create_suggestion(line, pos, values[i])]

\* history.save(item); the completer borrows the History, so a save ends
\* the life of the completer and of what it returned
Save ==
    \E command_line \in CommandLines :
        /\ Len(history) < MaxHistory
        /\ history' = save(history, command_line)
        /\ completion' = None
        /\ UNCHANGED <<sessionVars, keyVars, clipVars, sysVars>>

\* HistoryCompleter::new(&history).complete(line, pos)
Complete ==
    \E line \in Lines, pos \in 0..2 :
        /\ pos >= Len(line)
        /\ completion' = Some([line |-> line, pos |-> pos, out |-> complete(history, line, pos)])
        /\ UNCHANGED <<history, sessionVars, keyVars, clipVars, sysVars>>

NextHistory ==
    \/ Save
    \/ Complete

SpecHistory == Init /\ [][NextHistory]_vars

(* ---------------------------------------------------------------------- *)
(* SystemClipboard (core_editor/clip_buffer.rs)                            *)
(* ---------------------------------------------------------------------- *)

\* the texts the editor and the other programs write to the system clipboard
SystemTexts == UNION {[1..n -> {"t", "e"}] : n \in 0..MaxSystemText}

\* struct SystemClipboard
SystemClip == [cb |-> cb, local_copy |-> local_copy, mode |-> sc_mode]

\* Arboard::set_text: the system clipboard holds the text, or is left as it
\* was when the write fails
set_text(held, text, written) == IF written THEN text ELSE held

\* Arboard::get_text().unwrap_or_default(): the text the system clipboard
\* holds, or the empty string when the read fails
get_text_or_default(held, read) == IF read THEN held ELSE << >>

\* SystemClipboard::get without the comparison with the local copy
SystemGetKeepsMode(self, read) ==
    [out |-> <<get_text_or_default(self.cb, read), self.mode>>, self |-> self]

\* SystemClipboard::set: the clipboard self is left as
SystemClipboard_set(self, new_content, new_mode, written) ==
    [self EXCEPT !.local_copy = new_content,
                 !.cb = set_text(@, new_content, written),
                 !.mode = new_mode]

\* SystemClipboard::get: the returned pair and the clipboard self is left as
SystemClipboard_get(self, read) ==
    LET system_content == get_text_or_default(self.cb, read) IN
    IF system_content = self.local_copy
    THEN [out |-> <<system_content, self.mode>>, self |-> self]
    ELSE [out |-> <<system_content, "Normal">>, self |-> self]

SystemSet ==
    \E c \in SystemTexts, m \in ClipboardMode, written \in BOOLEAN :
        LET after == SystemClipboard_set(SystemClip, c, m, written) IN
        /\ cb' = after.cb
        /\ local_copy' = after.local_copy
        /\ sc_mode' = after.mode
        /\ sc_ret' = [op |-> "set", content |-> c, mode |-> m, written |-> written]
        /\ last_set' = [op |-> "set", content |-> c, mode |-> m]
        /\ UNCHANGED <<sessionVars, keyVars, clipVars, histVars>>

SystemGet ==
    \E read \in BOOLEAN :
        LET got == SystemClipboard_get(SystemClip, read) IN
        /\ cb' = got.self.cb
        /\ local_copy' = got.self.local_copy
        /\ sc_mode' = got.self.mode
        /\ sc_ret' = [op |-> "get", read |-> read, out |-> got.out]
        /\ UNCHANGED <<last_set, sessionVars, keyVars, clipVars, histVars>>

\* another program writes the system clipboard
OtherProgramCopies ==
    \E c \in SystemTexts :
        /\ cb' = c
        /\ sc_ret' = [op |-> "other", content |-> c]
        /\ UNCHANGED <<local_copy, sc_mode, last_set, sessionVars, keyVars, clipVars, histVars>>

NextSystem ==
    \/ SystemSet
    \/ SystemGet
    \/ OtherProgramCopies

SpecSystem == Init /\ [][NextSystem]_vars

TypeOK ==
    /\ previous \in {None} \cup {Some(e) : e \in Events}
    /\ last_char_search \in {None} \cup {Some(cs) : cs \in ViCharSearch}

(* ---------------------------------------------------------------------- *)
(* Properties                                                              *)
(* ---------------------------------------------------------------------- *)

Delete == Cmd("Delete")

Change == Cmd("Change")

ReplayCharSearch == Mot("ReplayCharSearch")

ReverseCharSearch == Mot("ReverseCharSearch")

IsDispatch(r) == r.op \in {"to_reedline", "to_reedline_with_motion"}

IsMotionDispatch(r, selfs, motions) ==
    /\ r.op = "to_reedline_with_motion"
    /\ r.self \in selfs
    /\ r.motion \in motions

\* the memory variant that matches a character-search motion
MatchingSearch(motion) ==
    CASE motion.tag = "RightUntil" -> CharSearch("ToRight", motion.c)
      [] motion.tag = "RightBefore" -> CharSearch("TillRight", motion.c)
      [] motion.tag = "LeftUntil" -> CharSearch("ToLeft", motion.c)
      [] motion.tag = "LeftBefore" -> CharSearch("TillLeft", motion.c)

\* the cut a character-search motion stands for
MotionCut(motion) ==
    CASE motion.tag = "RightUntil" -> ECc("CutRightUntil", motion.c)
      [] motion.tag = "RightBefore" -> ECc("CutRightBefore", motion.c)
      [] motion.tag = "LeftUntil" -> ECc("CutLeftUntil", motion.c)
      [] motion.tag = "LeftBefore" -> ECc("CutLeftBefore", motion.c)

\* the cut in the mirrored direction of a remembered search
MirroredCut(cs) ==
    CASE cs.kind = "ToRight" -> ECc("CutLeftUntil", cs.c)
      [] cs.kind = "ToLeft" -> ECc("CutRightUntil", cs.c)
      [] cs.kind = "TillRight" -> ECc("CutLeftBefore", cs.c)
      [] cs.kind = "TillLeft" -> ECc("CutRightBefore", cs.c)

\* C1: whenever the most recent dispatch of Delete or Change with a
\* character-search motion used motion m (with its character c),
\* last_char_search holds the variant matching m, and (Delete,
\* ReplayCharSearch) resolves to the single cut instruction that (Delete, m)
\* resolves to; a (Delete, ReplayCharSearch) dispatch that was just made
\* returned that instruction.
C1_ReplayRepeatsLastSearch ==
    last_search_motion.tag = "Some" =>
        LET m == last_search_motion.v.motion
            replay == to_reedline_with_motion(Delete, ReplayCharSearch, ViState)
            again == to_reedline_with_motion(Delete, m, ViState)
        IN  /\ last_char_search = Some(MatchingSearch(m))
            /\ replay.out = again.out
            /\ replay.out = Some(<<Edit(MotionCut(m))>>)
            /\ IsMotionDispatch(ret, {Delete}, {ReplayCharSearch}) => ret.out = again.out

\* C1 witness: a (Delete, ReplayCharSearch) dispatch resolved after Change
\* recorded a leftward before-search.
C1_Witness ==
    /\ IsMotionDispatch(ret, {Delete}, {ReplayCharSearch})
    /\ ret.out = Some(<<Edit(ECc("CutLeftBefore", "d"))>>)
    /\ last_search_motion = Some([self |-> Change, motion |-> MotC("LeftBefore", "d")])

\* C2: with last_char_search present, (Delete, ReverseCharSearch) resolves
\* to the one cut in the mirrored direction with the same character and the
\* same until/before kind, and (Change, ReverseCharSearch) to that cut
\* followed by a repaint; a ReverseCharSearch dispatch that was just made
\* returned exactly that.
C2_ReverseMirrors ==
    last_char_search.tag = "Some" =>
        LET cut == Edit(MirroredCut(last_char_search.v)) IN
        /\ to_reedline_with_motion(Delete, ReverseCharSearch, ViState).out = Some(<<cut>>)
        /\ to_reedline_with_motion(Change, ReverseCharSearch, ViState).out
               = Some(<<cut, Event(Repaint)>>)
        /\ IsMotionDispatch(ret, {Delete}, {ReverseCharSearch}) => ret.out = Some(<<cut>>)
        /\ IsMotionDispatch(ret, {Change}, {ReverseCharSearch})
               => ret.out = Some(<<cut, Event(Repaint)>>)

\* C2 witness: (Change, ReverseCharSearch) resolved against a remembered
\* TillLeft search.
C2_Witness ==
    /\ IsMotionDispatch(ret, {Change}, {ReverseCharSearch})
    /\ last_char_search = Some(CharSearch("TillLeft", "x"))
    /\ ret.out = Some(<<Edit(ECc("CutRightBefore", "x")), Event(Repaint)>>)

\* C3: while last_char_search is absent (as it is until the first
\* character-search motion is combined with Delete or Change), Delete and
\* Change with ReplayCharSearch or ReverseCharSearch return unsupported and
\* leave last_char_search absent.
C3_AbsentSearchUnsupported ==
    /\ last_search_motion = None => last_char_search = None
    /\ last_char_search = None =>
        /\ \A self \in {Delete, Change}, motion \in {ReplayCharSearch, ReverseCharSearch} :
              LET r == to_reedline_with_motion(self, motion, ViState) IN
              /\ r.out = None
              /\ r.vi.last_char_search = None
        /\ IsMotionDispatch(ret, {Delete, Change}, {ReplayCharSearch, ReverseCharSearch})
              => ret.out = None

\* C3 witness: (Change, ReverseCharSearch) was dispatched with no search
\* remembered.
C3_Witness ==
    /\ IsMotionDispatch(ret, {Change}, {ReverseCharSearch})
    /\ ret.out = None
    /\ last_char_search = None
    /\ previous # None

\* C4: once last_char_search is present it stays present, whatever step
\* follows.
C4_SearchNeverCleared ==
    [][last_char_search.tag = "Some" => last_char_search'.tag = "Some"]_vars

\* C4 witness: an unsupported motion-combined dispatch was made with a
\* search remembered.
C4_Witness ==
    /\ IsMotionDispatch(ret, {Delete, Change}, {Mot("Up"), Mot("Down")})
    /\ ret.out = None
    /\ last_char_search.tag = "Some"

\* C5: a dispatch step that changes last_char_search is the motion-combined
\* dispatch of Delete or Change with a character-search motion, and no
\* dispatch step changes previous.
C5_DispatchFrame ==
    [][IsDispatch(ret') =>
          /\ previous' = previous
          /\ last_char_search' # last_char_search =>
                /\ ret'.op = "to_reedline_with_motion"
                /\ ret'.self \in {Delete, Change}
                /\ ret'.motion.tag \in CharMotions]_vars

\* C5 witness: a ReverseCharSearch dispatch resolved with a search
\* remembered and a previous event stored.
C5_Witness ==
    /\ IsMotionDispatch(ret, {Delete}, {ReverseCharSearch})
    /\ ret.out # None
    /\ previous # None
    /\ last_search_motion.tag = "Some"
    /\ last_char_search = Some(MatchingSearch(last_search_motion.v.motion))

\* whether an instruction list holds a repaint
HoldsRepaint(list) == \E i \in 1..Len(list) : list[i] = Event(Repaint)

\* C6: in every session state and for every motion, a resolved (Change,
\* motion) list has a repaint as its last element and at least one
\* instruction before it, and a resolved (Delete, motion) list holds no
\* repaint; the lists that dispatches returned are of that shape.
C6_RepaintOnlyAfterChange ==
    /\ \A motion \in Motion :
          LET c == to_reedline_with_motion(Change, motion, ViState).out
              d == to_reedline_with_motion(Delete, motion, ViState).out
          IN  /\ c.tag = "Some" => Len(c.v) >= 2 /\ c.v[Len(c.v)] = Event(Repaint)
              /\ d.tag = "Some" => ~HoldsRepaint(d.v)
    /\ IsMotionDispatch(ret, {Change}, Motion) /\ ret.out.tag = "Some"
          => Len(ret.out.v) >= 2 /\ ret.out.v[Len(ret.out.v)] = Event(Repaint)
    /\ IsMotionDispatch(ret, {Delete}, Motion) /\ ret.out.tag = "Some"
          => ~HoldsRepaint(ret.out.v)

\* C6 witness: (Change, Line) resolved to its three instructions, the
\* repaint last, with a search remembered.
C6_Witness ==
    /\ IsMotionDispatch(ret, {Change}, {Mot("Line")})
    /\ ret.out.tag = "Some"
    /\ Len(ret.out.v) = 3
    /\ ret.out.v[3] = Event(Repaint)
    /\ last_char_search.tag = "Some"

\* C7: in every session state Delete and Change with Up or Down return
\* unsupported and leave previous and last_char_search as they were.
C7_VerticalUnsupported ==
    /\ [](\A self \in {Delete, Change}, motion \in {Mot("Up"), Mot("Down")} :
             to_reedline_with_motion(self, motion, ViState) = Returned(None, ViState))
    /\ [][IsMotionDispatch(ret', {Delete, Change}, {Mot("Up"), Mot("Down")}) =>
             /\ ret'.out = None
             /\ previous' = previous
             /\ last_char_search' = last_char_search]_vars

\* C7 witness: (Delete, Down) came back unsupported in a session that holds
\* a previous event and a remembered search.
C7_Witness ==
    /\ IsMotionDispatch(ret, {Delete}, {Mot("Down")})
    /\ ret.out = None
    /\ previous # None
    /\ last_char_search # None

\* C8: for every command other than Delete and Change, every motion and
\* every session state, motion-combined dispatch returns unsupported and
\* leaves the session state as it was.
C8_OtherCommandsUnsupported ==
    /\ [](\A self \in Command \ {Delete, Change}, motion \in Motion :
             to_reedline_with_motion(self, motion, ViState) = Returned(None, ViState))
    /\ [][IsMotionDispatch(ret', Command \ {Delete, Change}, Motion) =>
             /\ ret'.out = None
             /\ previous' = previous
             /\ last_char_search' = last_char_search]_vars

\* C8 witness: DeleteChar was dispatched with a character-search motion and
\* nothing was recorded.
C8_Witness ==
    /\ IsMotionDispatch(ret, {Cmd("DeleteChar")}, {MotC("RightUntil", "x")})
    /\ ret.out = None
    /\ last_char_search = None

\* C9: standalone dispatch leaves previous and last_char_search as they
\* were, for every command and every session state.
C9_StandaloneKeepsState ==
    /\ [](\A self \in Command : to_reedline(self, ViState).vi = ViState)
    /\ [][ret'.op = "to_reedline" =>
             /\ previous' = previous
             /\ last_char_search' = last_char_search]_vars

\* C9 witness: RepeatLastAction was dispatched standalone in a session that
\* holds a previous event and a remembered search.
C9_Witness ==
    /\ ret.op = "to_reedline"
    /\ ret.self = Cmd("RepeatLastAction")
    /\ previous # None
    /\ last_char_search # None

\* the list RepeatLastAction is to yield for a value of previous
RepeatList(prev) == IF prev = None THEN <<>> ELSE <<Event(prev.v)>>

\* C10: standalone dispatch of RepeatLastAction yields the empty list when
\* previous is absent and the one instruction carrying the event of previous
\* when it is present, and so does the next dispatch of it, previous not
\* having been updated.
C10_RepeatLastAction ==
    /\ [](to_reedline(Cmd("RepeatLastAction"), ViState).out = RepeatList(previous))
    /\ [][(ret'.op = "to_reedline" /\ ret'.self = Cmd("RepeatLastAction")) =>
             /\ ret'.out = RepeatList(previous)
             /\ to_reedline(Cmd("RepeatLastAction"), ViState').out = ret'.out]_vars

\* C10 witness: RepeatLastAction returned the one instruction carrying the
\* stored event.
C10_Witness ==
    /\ ret.op = "to_reedline"
    /\ ret.self = Cmd("RepeatLastAction")
    /\ previous.tag = "Some"
    /\ ret.out = <<Event(previous.v)>>

\* C10 witness for the absent case is the dispatch before any event is stored
C10_WitnessAbsent ==
    /\ ret.op = "to_reedline"
    /\ ret.self = Cmd("RepeatLastAction")
    /\ previous = None
    /\ ret.out = <<>>

\* C11: requires_motion is true exactly for Delete and Change, and
\* standalone dispatch returns the single Incomplete marker exactly for
\* Delete, Change and Incomplete: every command with requires_motion yields
\* the marker and no other command but the Incomplete sentinel does.
C11_MarkerForMotionCommands ==
    /\ \A self \in Command :
          LET out == to_reedline(self, ViState).out IN
          /\ requires_motion(self) <=> self \in {Delete, Change}
          /\ out = <<Incomplete>> <=> self \in {Delete, Change, Cmd("Incomplete")}
          /\ requires_motion(self) => out = <<Incomplete>>
          /\ out = <<Incomplete>> => requires_motion(self) \/ self = Cmd("Incomplete")
    /\ ret.op = "to_reedline" =>
          (ret.out = <<Incomplete>> <=> requires_motion(ret.self) \/ ret.self = Cmd("Incomplete"))

\* C11 witness: Change, which requires a motion, was dispatched standalone
\* and came back as the marker, with an event stored in previous.
C11_Witness ==
    /\ ret.op = "to_reedline"
    /\ ret.self = Change
    /\ requires_motion(ret.self)
    /\ ret.out = <<Incomplete>>
    /\ previous # None

\* the commands that need no motion and are neither RepeatLastAction nor
\* Incomplete
FixedCommands == Command \ {Delete, Change, Cmd("RepeatLastAction"), Cmd("Incomplete")}

\* the one-instruction list of the standalone dispatch table
StandaloneTable(self) ==
    CASE self.tag = "EnterViInsert" -> <<Event(Repaint)>>
      [] self.tag = "EnterViAppend" -> <<Edit(ECsel("MoveRight", FALSE))>>
      [] self.tag = "PasteAfter" -> <<Edit(EC("PasteCutBufferAfter"))>>
      [] self.tag = "PasteBefore" -> <<Edit(EC("PasteCutBufferBefore"))>>
      [] self.tag = "Undo" -> <<Edit(EC("Undo"))>>
      [] self.tag = "ChangeToLineEnd" -> <<Edit(EC("ClearToLineEnd"))>>
      [] self.tag = "DeleteToEnd" -> <<Edit(EC("CutToLineEnd"))>>
      [] self.tag = "AppendToEnd" -> <<Edit(ECsel("MoveToLineEnd", FALSE))>>
      [] self.tag = "PrependToStart" -> <<Edit(ECsel("MoveToLineStart", FALSE))>>
      [] self.tag = "RewriteCurrentLine" -> <<Edit(EC("CutCurrentLine"))>>
      [] self.tag \in {"DeleteChar", "SubstituteCharWithInsert"} -> <<Edit(EC("CutChar"))>>
      [] self.tag = "ReplaceChar" -> <<Edit(ECc("ReplaceChar", self.c))>>
      [] self.tag = "HistorySearch" -> <<Event(SearchHistory)>>
      [] self.tag = "Switchcase" -> <<Edit(EC("SwitchcaseChar"))>>

\* C15: for every command that needs no motion and is neither
\* RepeatLastAction nor Incomplete, standalone dispatch returns the fixed
\* one-instruction list of the table in every session state, and the lists
\* such dispatches returned are the table's.
C15_StandaloneTable ==
    /\ \A self \in FixedCommands :
          /\ to_reedline(self, ViState).out = StandaloneTable(self)
          /\ Len(to_reedline(self, ViState).out) = 1
    /\ ret.op = "to_reedline" /\ ret.self \in FixedCommands
          => ret.out = StandaloneTable(ret.self)

\* C15 witness: DeleteToEnd was dispatched in a session holding a previous
\* event and a remembered search, and returned cut-to-line-end.
C15_Witness ==
    /\ ret.op = "to_reedline"
    /\ ret.self = Cmd("DeleteToEnd")
    /\ ret.out = <<Edit(EC("CutToLineEnd"))>>
    /\ previous # None
    /\ last_char_search # None

\* the motions of the Delete/Change table
TableMotions == {"End", "Line", "NextWord", "NextWordEnd", "NextBigWord", "NextBigWordEnd", "PreviousWord", "PreviousBigWord", "Start", "Left", "Right"}

\* the cut both commands use for the motions they share
SharedCut(tag) ==
    CASE tag = "PreviousWord" -> EC("CutWordLeft")
      [] tag = "PreviousBigWord" -> EC("CutBigWordLeft")
      [] tag = "Start" -> EC("CutFromLineStart")
      [] tag = "Left" -> EC("Backspace")
      [] tag = "Right" -> EC("Delete")

\* the Delete column of the table
DeleteTable(tag) ==
    CASE tag = "End" -> <<Edit(EC("CutToLineEnd"))>>
      [] tag = "Line" -> <<Edit(EC("CutCurrentLine"))>>
      [] tag = "NextWord" -> <<Edit(EC("CutWordRightToNext"))>>
      [] tag = "NextWordEnd" -> <<Edit(EC("CutWordRight"))>>
      [] tag = "NextBigWord" -> <<Edit(EC("CutBigWordRightToNext"))>>
      [] tag = "NextBigWordEnd" -> <<Edit(EC("CutBigWordRight"))>>
      [] OTHER -> <<Edit(SharedCut(tag))>>

\* the Change column of the table
ChangeTable(tag) ==
    CASE tag = "End" -> <<Edit(EC("ClearToLineEnd")), Event(Repaint)>>
      [] tag = "Line" ->
            <<Edit(ECsel("MoveToStart", FALSE)), Edit(EC("ClearToLineEnd")), Event(Repaint)>>
      [] tag \in {"NextWord", "NextWordEnd"} -> <<Edit(EC("CutWordRight")), Event(Repaint)>>
      [] tag \in {"NextBigWord", "NextBigWordEnd"} -> <<Edit(EC("CutBigWordRight")), Event(Repaint)>>
      [] OTHER -> <<Edit(SharedCut(tag)), Event(Repaint)>>

\* C16: in every session state Delete and Change resolve the motions End,
\* Line, NextWord, NextWordEnd, NextBigWord, NextBigWordEnd, PreviousWord,
\* PreviousBigWord, Start, Left and Right to the lists of the Delete/Change
\* table, and the lists such dispatches returned are the table's.
C16_MotionTable ==
    /\ \A tag \in TableMotions :
          /\ to_reedline_with_motion(Delete, Mot(tag), ViState).out = Some(DeleteTable(tag))
          /\ to_reedline_with_motion(Change, Mot(tag), ViState).out = Some(ChangeTable(tag))
    /\ IsMotionDispatch(ret, {Delete}, {Mot(tag) : tag \in TableMotions})
          => ret.out = Some(DeleteTable(ret.motion.tag))
    /\ IsMotionDispatch(ret, {Change}, {Mot(tag) : tag \in TableMotions})
          => ret.out = Some(ChangeTable(ret.motion.tag))

\* C16 witness: (Change, NextWord) resolved to cut-word-right and a repaint.
C16_Witness ==
    /\ IsMotionDispatch(ret, {Change}, {Mot("NextWord")})
    /\ ret.out = Some(<<Edit(EC("CutWordRight")), Event(Repaint)>>)
    /\ last_char_search # None

\* C20: ReplayCharSearch and ReverseCharSearch never write
\* last_char_search. With a search remembered, (Delete, ReverseCharSearch)
\* yields the cut mirroring the recorded search however many times it is
\* dispatched in a row, and a following (Delete, ReplayCharSearch) still
\* yields the cut of the recorded direction.
C20_ReverseIsRepeatable ==
    /\ [](last_search_motion.tag = "Some" =>
            LET m == last_search_motion.v.motion
                mirrored == Some(<<Edit(MirroredCut(MatchingSearch(m)))>>)
                once == to_reedline_with_motion(Delete, ReverseCharSearch, ViState)
                twice == to_reedline_with_motion(Delete, ReverseCharSearch, once.vi)
                replay == to_reedline_with_motion(Delete, ReplayCharSearch, twice.vi)
            IN  /\ once.out = mirrored
                /\ twice.out = mirrored
                /\ replay.out = Some(<<Edit(MotionCut(m))>>)
                /\ IsMotionDispatch(ret, {Delete}, {ReverseCharSearch}) => ret.out = mirrored)
    /\ [][IsMotionDispatch(ret', {Delete, Change}, {ReplayCharSearch, ReverseCharSearch})
             => last_char_search' = last_char_search]_vars

\* C20 witness: (Delete, ReverseCharSearch) returned cut-left-until('x')
\* after Delete recorded a rightward until-search of 'x', which is still
\* remembered.
C20_Witness ==
    /\ IsMotionDispatch(ret, {Delete}, {ReverseCharSearch})
    /\ ret.out = Some(<<Edit(ECc("CutLeftUntil", "x"))>>)
    /\ last_search_motion = Some([self |-> Delete, motion |-> MotC("RightUntil", "x")])
    /\ last_char_search = Some(CharSearch("ToRight", "x"))

\* the single-character command tokens and the commands they stand for
TokenPairs == {<<"d", "Delete">>, <<"p", "PasteAfter">>, <<"P", "PasteBefore">>, <<"i", "EnterViInsert">>, <<"a", "EnterViAppend">>, <<"u", "Undo">>, <<"c", "Change">>, <<"x", "DeleteChar">>, <<"s", "SubstituteCharWithInsert">>, <<"?", "HistorySearch">>, <<"C", "ChangeToLineEnd">>, <<"D", "DeleteToEnd">>, <<"I", "PrependToStart">>, <<"A", "AppendToEnd">>, <<"S", "RewriteCurrentLine">>, <<"~", "Switchcase">>, <<".", "RepeatLastAction">>}

SingleTokens == {p[1] : p \in TokenPairs}

\* what a parse of input left unconsumed, counted from the front
Consumed(input, result) == Len(input) - Len(result.rest)

\* C12: a parse of an input whose first character is a single-character
\* command token returns the matching command and consumes exactly that one
\* character, whatever follows; a parse of the empty input or of an input
\* whose first character is no command token returns no match and consumes
\* nothing.
C12_SingleTokenParse ==
    /\ parse_command(<<>>) = [out |-> None, rest |-> <<>>]
    /\ parsed.tag = "Some" =>
          LET k == Head(pending) IN
          /\ k \in SingleTokens =>
                /\ \E p \in TokenPairs : p[1] = k /\ parsed.v.out = Some(Cmd(p[2]))
                /\ parsed.v.rest = Tail(pending)
                /\ Consumed(pending, parsed.v) = 1
          /\ k \notin SingleTokens \cup {"r"} =>
                /\ parsed.v.out = None
                /\ parsed.v.rest = pending
                /\ Consumed(pending, parsed.v) = 0

\* C12 witness: "~" followed by two more keystrokes parsed as Switchcase
\* with the two left unconsumed.
C12_Witness ==
    /\ pending = <<"~", "r", "d">>
    /\ parsed = Some([out |-> Some(Cmd("Switchcase")), rest |-> <<"r", "d">>])

\* C12 witness of the no-match case: a buffer led by a character that is no
\* command token.
C12_WitnessNoMatch ==
    /\ pending = <<"w", "d">>
    /\ parsed = Some([out |-> None, rest |-> <<"w", "d">>])

\* C13: a parse of the lone 'r' returns Incomplete having consumed only the
\* 'r'; a parse of 'r' followed by a character c returns ReplaceChar(c)
\* having consumed exactly two characters, for every c, command tokens
\* included.
C13_ReplaceCharParse ==
    parsed.tag = "Some" /\ Head(pending) = "r" =>
        /\ Len(pending) = 1 =>
              /\ parsed.v.out = Some(Cmd("Incomplete"))
              /\ Consumed(pending, parsed.v) = 1
        /\ Len(pending) >= 2 =>
              /\ parsed.v.out = Some(ReplaceChar(pending[2]))
              /\ parsed.v.rest = SubSeq(pending, 3, Len(pending))
              /\ Consumed(pending, parsed.v) = 2

\* C13 witness: 'r' followed by the command token 'd' and one more
\* keystroke parsed as ReplaceChar('d') with the last keystroke left over.
C13_Witness ==
    /\ pending = <<"r", "d", "x">>
    /\ parsed = Some([out |-> Some(ReplaceChar("d")), rest |-> <<"x">>])

\* C13 witness of the lone 'r'
C13_WitnessLone ==
    /\ pending = <<"r">>
    /\ parsed = Some([out |-> Some(Cmd("Incomplete")), rest |-> <<>>])

\* C14: in the key-handling loop a buffer holding only 'r' parses as
\* Incomplete for as long as it is pending, the only step that leaves that
\* state is the arrival of a second keystroke c, upon which the buffer
\* parses as ReplaceChar(c), and the result of every re-parse is the parse
\* of the buffer's content alone.
C14_ReplaceWaitsForOperand ==
    /\ [](pending = <<"r">> =>
            parsed = Some([out |-> Some(Cmd("Incomplete")), rest |-> <<>>]))
    /\ [](parsed.tag = "Some" => parsed.v = parse_command(pending))
    /\ [](parsed.tag = "Some" /\ Len(pending) >= 2 /\ Head(pending) = "r" =>
            parsed.v.out = Some(ReplaceChar(pending[2])))
    /\ [][pending = <<"r">> =>
            /\ Len(pending') = 2
            /\ pending'[1] = "r"
            /\ parsed'.tag = "Some"
            /\ parsed'.v.out = Some(ReplaceChar(pending'[2]))]_vars

\* C14 witness: the second keystroke arrived after 'r' and the buffer
\* parsed as ReplaceChar of it.
C14_Witness ==
    /\ pending = <<"r", ".">>
    /\ parsed = Some([out |-> Some(ReplaceChar(".")), rest |-> <<>>])

\* C17: whole_line_char is 'd' for Delete, 'c' for Change and none for every
\* other command, so it is defined exactly for the commands with
\* requires_motion; parsing the one-character input made of it returns the
\* command, and in a buffer whose second keystroke is the whole_line_char of
\* the command parsed from the first, the rest parses as that command again.
C17_WholeLineCharRoundTrip ==
    /\ whole_line_char(Delete) = Some("d")
    /\ whole_line_char(Change) = Some("c")
    /\ \A cmd \in Command :
          /\ cmd \notin {Delete, Change} => whole_line_char(cmd) = None
          /\ whole_line_char(cmd) # None <=> requires_motion(cmd)
          /\ whole_line_char(cmd) # None =>
                parse_command(<<whole_line_char(cmd).v>>) = [out |-> Some(cmd), rest |-> <<>>]
    /\ (/\ parsed.tag = "Some"
        /\ parsed.v.out.tag = "Some"
        /\ Len(pending) >= 2
        /\ whole_line_char(parsed.v.out.v) = Some(pending[2]))
          => /\ pending[1] = pending[2]
             /\ parse_command(parsed.v.rest).out = parsed.v.out

\* C17 witness: the buffer "cc": the first keystroke parsed as Change and
\* the second is its whole_line_char.
C17_Witness ==
    /\ pending = <<"c", "c">>
    /\ parsed.tag = "Some"
    /\ parsed.v.out = Some(Change)
    /\ whole_line_char(parsed.v.out.v) = Some(pending[2])

\* what the clipboard is to read back after the last call that wrote it
ReadsBack ==
    IF last_write.op = "set"
    THEN <<last_write.content, last_write.mode>>
    ELSE <<<< >>, "Normal">>

\* C19: after any sequence of set and clear calls on a LocalClipboard, get
\* returns the content and mode of the most recent set, or the empty string
\* with mode Normal when the most recent write was clear or there was none;
\* len returns the length of that content; get and len change nothing.
C19_ClipboardReadsBack ==
    /\ [](/\ LocalClipboard_get(Clip) = [out |-> ReadsBack, self |-> Clip]
          /\ Clipboard_len(Clip) = [out |-> Len(ReadsBack[1]), self |-> Clip]
          /\ clip_ret.op = "get" => clip_ret.out = ReadsBack
          /\ clip_ret.op = "len" => clip_ret.out = Len(ReadsBack[1]))
    /\ [][clip_ret'.op \in {"get", "len"} =>
             /\ content' = content
             /\ mode' = mode]_vars

\* C19 witness: get read back a three-character content in mode Lines.
C19_Witness ==
    /\ clip_ret.op = "get"
    /\ last_write.op = "set"
    /\ last_write.content = <<"t", "e", "s">>
    /\ clip_ret.out = <<last_write.content, "Lines">>

\* C19 witness of the cleared clipboard: len after a clear.
C19_WitnessCleared ==
    /\ clip_ret = [op |-> "len", out |-> 0]
    /\ last_write.op = "clear"

\* the values of the suggestions the last call of complete returned
SuggestedValues == [i \in 1..Len(completion.v.out) |-> completion.v.out[i].value]

\* the place of the most recent save of a command line
LastSaved(command_line) ==
    CHOOSE i \in 1..Len(history) :
        /\ history[i] = command_line
        /\ \A j \in (i + 1)..Len(history) : history[j] # command_line

\* every suggestion is a saved command line that contains the search text
C18_ValuesAreMatches ==
    completion.tag = "Some" =>
        \A i \in 1..Len(SuggestedValues) :
            /\ \E h \in 1..Len(history) : history[h] = SuggestedValues[i]
            /\ Contains(SuggestedValues[i], Remainder(completion.v.line))

\* no two suggestions have the same value
C18_ValuesAreDistinct ==
    completion.tag = "Some" =>
        \A i, j \in 1..Len(SuggestedValues) : i # j => SuggestedValues[i] # SuggestedValues[j]

\* C18: for any sequence of saved items and any input line, no two
\* suggestions complete returns have the same value, every value is a saved
\* command line containing the search text, and the values run from the most
\* recently saved to the oldest.
C18_NoDuplicateSuggestions ==
    /\ C18_ValuesAreDistinct
    /\ C18_ValuesAreMatches
    /\ completion.tag = "Some" =>
          \A i, j \in 1..Len(SuggestedValues) :
              i < j => LastSaved(SuggestedValues[i]) > LastSaved(SuggestedValues[j])

\* the content and the mode given to the editor's last SystemClipboard::set;
\* SystemClipboard::new stands for a set of the empty text in mode Normal
LastSetContent == IF last_set.op = "set" THEN last_set.content ELSE << >>

LastSetMode == IF last_set.op = "set" THEN last_set.mode ELSE "Normal"

\* the pair SystemClipboard::get returns for a text taken as the system
\* content: the mode of the last set when the text is the content of the
\* last set, Normal when it differs
ModeFor(text) == IF text = LastSetContent THEN LastSetMode ELSE "Normal"

\* C21 as stated: SystemClipboard::get always returns the current content
\* of the system clipboard, with the mode of the editor's last set when
\* that content equals the content of the last set and with mode Normal
\* whenever the system content differs from it.
C21_GetReturnsSystemContent ==
    sc_ret.op = "get" => sc_ret.out = <<cb, ModeFor(cb)>>

\* C21: SystemClipboard::get returns the text read from the system
\* clipboard, which is its current content whenever the read succeeds,
\* under any interleaving with other programs and failed writes, and the
\* empty string when the read fails; with it comes the mode of the editor's
\* last set when the returned text equals the content of the last set, and
\* mode Normal whenever the returned text differs from it. The call leaves
\* the clipboard as it was.
C21_GetReturnsReadText ==
    /\ \A read \in BOOLEAN :
          LET got == SystemClipboard_get(SystemClip, read)
              text == IF read THEN cb ELSE << >>
          IN  /\ got.out = <<text, ModeFor(text)>>
              /\ got.self = SystemClip
    /\ sc_ret.op = "get" =>
          LET text == IF sc_ret.read THEN cb ELSE << >>
          IN  sc_ret.out = <<text, ModeFor(text)>>

\* a get whose read failed while another program's text is on the system
\* clipboard, after a set of the empty text in mode Lines
C21_Witness ==
    /\ sc_ret.op = "get"
    /\ ~sc_ret.read
    /\ last_set = [op |-> "set", content |-> << >>, mode |-> "Lines"]
    /\ cb = <<"t">>
    /\ sc_ret.out = <<<< >>, "Lines">>

\* a get that read another program's text after a set in mode Lines
C21_WitnessOtherProgram ==
    /\ sc_ret.op = "get"
    /\ sc_ret.read
    /\ last_set = [op |-> "set", content |-> <<"t">>, mode |-> "Lines"]
    /\ cb = <<"t", "t">>
    /\ sc_ret.out = <<<<"t", "t">>, "Normal">>

\* a get that read back the text of the last set in mode Lines
C21_WitnessOwnText ==
    /\ sc_ret.op = "get"
    /\ sc_ret.read
    /\ last_set = [op |-> "set", content |-> <<"t">>, mode |-> "Lines"]
    /\ sc_ret.out = <<<<"t">>, "Lines">>

====
